---- MODULE Spec2Model ----
(***************************************************************************)
(* Futstar: the momentum index (backend/main.py, MomentumCalculator), the  *)
(* position ledger (backend/main.py, open_position / settle_position) and  *)
(* the oracle monitor (backend/oracle_service.py, MomentumOracle).         *)
(*                                                                         *)
(* Numbers.  Python floats are modelled by exact rationals <<n, d>>, d > 0.*)
(* An amount or a PnL is an integer count of 1/100000 (AmountUnit), so that*)
(* round(x, 4) is a real conversion: it yields a multiple of 10 units.     *)
(* xG values are counted in 1/100, the volatility draw in 1/10.            *)
(***************************************************************************)
EXTENDS Integers, Sequences, FiniteSets, TLC

\* ------------------------------------------------------------ bounds
MaxClock == 1
MaxPositions == 2
MaxVolatility == 60
MaxShots == 3
MaxXg == 50
MaxOlder == 2
MaxTasks == 2
MaxUpdates == 2
MaxBurst == 3

\* ------------------------------------------------------------ Optional[...]
None == << >>
Some(v) == << v >>

\* ------------------------------------------------------------ exact arithmetic
Abs(x) == IF x < 0 THEN -x ELSE x
Max(a, b) == IF a >= b THEN a ELSE b
Min(a, b) == IF a <= b THEN a ELSE b

RECURSIVE GCD(_, _)
GCD(a, b) == IF b = 0 THEN a ELSE GCD(b, a % b)

\* the rational n/d in lowest terms
Rat(n, d) == LET g == GCD(Abs(n), d) IN << n \div g, d \div g >>
RAdd(a, b) == Rat(a[1] * b[2] + b[1] * a[2], a[2] * b[2])
RMul(a, b) == LET x == Rat(a[1], b[2])
                  y == Rat(b[1], a[2])
              IN  Rat(x[1] * y[1], x[2] * y[2])

\* int(x): truncation toward zero
PyInt(a) == IF a[1] >= 0 THEN a[1] \div a[2] ELSE -((-a[1]) \div a[2])

\* the integer nearest to n/d, ties to the even one (Python's round)
RoundHalfEven(a) ==
    LET q == a[1] \div a[2]
        r == a[1] - q * a[2]
    IN  IF 2 * r < a[2] THEN q
        ELSE IF 2 * r > a[2] THEN q + 1
        ELSE IF q % 2 = 0 THEN q ELSE q + 1

\* round(x, 4) of a value counted in 1/100000: a multiple of 10 units
Round4(a) == 10 * RoundHalfEven(RMul(a, << 1, 10 >>))

\* ------------------------------------------------------------ MomentumCalculator
DangerTypes == {"shot", "corner", "dangerous_attack"}

\* faulty variant: every event of the list considered
LastTen_All(recent_events) == recent_events

\* recent_events[-10:]
LastTen(recent_events) ==
    IF Len(recent_events) <= 10 THEN recent_events
    ELSE SubSeq(recent_events, Len(recent_events) - 9, Len(recent_events))

CountDanger(events, team) ==
    Cardinality({i \in DOMAIN events :
                    events[i].team = team /\ events[i].type \in DangerTypes})

possession_score(possession) == RMul(<< possession, 1 >>, << 2, 10 >>)

\* faulty variant: no shots counted as no home share
shots_score_NoNeutral(shots_home, shots_away) ==
    LET total_shots == shots_home + shots_away
    IN  IF total_shots > 0 THEN Rat(shots_home * 20, total_shots)
        ELSE << 0, 1 >>

shots_score(shots_home, shots_away) ==
    LET total_shots == shots_home + shots_away
    IN  IF total_shots > 0 THEN Rat(shots_home * 20, total_shots)
        ELSE << 10, 1 >>

xg_score(xg_home, xg_away) ==
    LET total_xg == xg_home + xg_away
    IN  IF total_xg > 0 THEN Rat(xg_home * 30, total_xg)
        ELSE << 15, 1 >>

field_tilt_score(field_tilt) == Rat((field_tilt + 100) * 20, 200)

event_score(recent_events) ==
    IF recent_events # << >>
    THEN LET recent_danger == CountDanger(LastTen(recent_events), "home")
                              - CountDanger(LastTen(recent_events), "away")
         IN  Max(0, Min(10, 5 + recent_danger))
    ELSE 5

\* faulty variant: the lower clamp left out
Bounded_NoFloor(momentum) == Min(100, PyInt(momentum))

\* max(0, min(100, int(momentum)))
Bounded(momentum) == Max(0, Min(100, PyInt(momentum)))

\* volatility: the random.gauss(0, 2) draw, counted in 1/10
calculate_momentum(possession, shots_home, shots_away, xg_home, xg_away, field_tilt, recent_events, volatility) ==
    LET momentum == RAdd(RAdd(RAdd(RAdd(possession_score(possession),
                                        shots_score(shots_home, shots_away)),
                                   xg_score(xg_home, xg_away)),
                              field_tilt_score(field_tilt)),
                         << event_score(recent_events), 1 >>)
    IN  Bounded(RAdd(momentum, Rat(volatility, 10)))

\* ------------------------------------------------------------ MockDataGenerator
\* d: the random draws of one call: d.base (gauss(0, 10) on possession),
\* d.shots_home, d.shots_away (the two shot counts), d.u_home, d.u_away (the
\* uniform(0.08, 0.18) factors, in 1/100), d.tilt (gauss(0, 10) on the tilt),
\* d.volatility.  No match id contains "arsenal" or "mancity".
generate_momentum_data(d) ==
    LET possession == Max(30, Min(70, 50 + d.base))
        xg_home == d.shots_home * d.u_home
        xg_away == d.shots_away * d.u_away
        field_tilt == (possession - 50) * 2 + d.tilt
    IN  [momentum_index |-> calculate_momentum(possession, d.shots_home,
                                d.shots_away, xg_home, xg_away, field_tilt,
                                << >>, d.volatility),
         possession |-> possession,
         shots_home |-> d.shots_home,
         shots_away |-> d.shots_away,
         xg_home |-> xg_home,
         xg_away |-> xg_away,
         field_tilt |-> field_tilt]

\* ------------------------------------------------------------ DataStore
MatchIds == {"match_001", "match_002", "match_003"}

VARIABLES
    clock,            \* datetime.now(), non-decreasing
    heap,             \* every TradingPosition object created so far
    positions,        \* data_store.positions: position_id -> object (index in heap)
    user_positions,   \* data_store.user_positions: wallet -> list of position ids
    last,             \* the request handled by the latest step and its response
    settle_count,     \* per object: the settle_position calls that returned 200
    snapshot,         \* the arguments of a calculate_momentum call
    volatility,       \* its random.gauss(0, 2) draw, in 1/10
    momentum,         \* its result, None before the call
    terms,            \* its five weighted terms, None before the call
    validation,       \* a validate_momentum_change call: arguments and result
    tasks,            \* the monitor_match tasks created so far, with their locals
    active_matches,   \* oracle.active_matches: match id -> momentum index
    update_history,   \* oracle.update_history
    publications,     \* every record ever appended to it, oldest first
    event,            \* what the latest step of the oracle did
    closed,           \* shutdown_event has run: oracle.close() was called
    passes_after_close  \* per loop (0: run, i: task i): passes made since then

ledger_vars == << clock, heap, positions, user_positions, last, settle_count >>
momentum_vars == << snapshot, volatility, momentum, terms >>
oracle_vars ==
    << tasks, active_matches, update_history, publications, event, closed,
       passes_after_close >>

vars == << ledger_vars, momentum_vars, validation, oracle_vars >>

\* ------------------------------------------------------------ requests
\* amounts are counted in AmountUnit: 10000000 is 100, 1 is 0.00001
Wallets == {"wallet_a", "wallet_b"}
RequestMatchIds == {"match_001", "match_404"}
PositionTypes == {"long", "short"}
UnknownPositionId == MaxClock + 1

Request(match_id, position_type, amount, wallet_address, window_duration) ==
    [match_id |-> match_id, position_type |-> position_type, amount |-> amount,
     wallet_address |-> wallet_address, window_duration |-> window_duration]

\* the request bodies the model sends: both directions with the stake 100, a
\* stake below the fourth decimal, a negative stake, a window of 0 seconds,
\* and an unknown match with and without valid fields
OpenPositionRequests ==
    {Request("match_001", "long", 10000000, "wallet_a", 1),
     Request("match_001", "short", 10000000, "wallet_a", 1),
     Request("match_001", "long", 1, "wallet_b", 1),
     Request("match_001", "long", -10000000, "wallet_b", 1),
     Request("match_001", "short", 10000000, "wallet_b", 0),
     Request("match_404", "long", 10000000, "wallet_a", 1),
     Request("match_404", "short", -10000000, "wallet_b", 0)}

\* the draws of generate_momentum_data at the ledger's calls: they give the
\* indexes 40 (40.5 before int()) and 60 (60.5)
LedgerDraws ==
    {[base |-> 0, shots_home |-> 1, shots_away |-> 3, u_home |-> 12, u_away |-> 8,
      tilt |-> 0, volatility |-> 5],
     [base |-> 0, shots_home |-> 3, shots_away |-> 1, u_home |-> 8, u_away |-> 12,
      tilt |-> 0, volatility |-> 5]}

NoRequest ==
    [op |-> "none", arg |-> None, status |-> 0, detail |-> "", ref |-> 0,
     body |-> None]
HTTPException(op, arg, status_code, detail) ==
    [op |-> op, arg |-> arg, status |-> status_code, detail |-> detail,
     ref |-> 0, body |-> None]
OK(op, arg, ref, body) ==
    [op |-> op, arg |-> arg, status |-> 200, detail |-> "", ref |-> ref,
     body |-> Some(body)]

LedgerIdle ==
    /\ clock = 0
    /\ heap = << >>
    /\ positions = << >>
    /\ user_positions = << >>
    /\ last = NoRequest
    /\ settle_count = << >>

\* f[k] = v, the other keys kept (dict item assignment)
SetItem(f, k, v) == [x \in DOMAIN f \cup {k} |-> IF x = k THEN v ELSE f[x]]

\* ------------------------------------------------------------ open_position
\* faulty variant: the registry lookup left out
MatchKnown_Always(match_id) == TRUE

MatchKnown(match_id) == match_id \in MatchIds

\* position_id is "pos_<timestamp>" of datetime.now(): the clock reading itself.
\* entry_time is a second reading in the same handler, which has no await
\* between the two: at the clock's granularity they are one reading.
open_position(request, d) ==
    IF ~MatchKnown(request.match_id)
    THEN /\ last' = HTTPException("open", request, 404, "Match not found")
         /\ UNCHANGED << clock, heap, positions, user_positions, settle_count >>
    ELSE LET current_momentum == generate_momentum_data(d)
             position == [position_id |-> clock,
                          user_wallet |-> request.wallet_address,
                          match_id |-> request.match_id,
                          position_type |-> request.position_type,
                          amount |-> request.amount,
                          entry_index |-> current_momentum.momentum_index,
                          entry_time |-> clock,
                          window_duration |-> request.window_duration,
                          is_settled |-> FALSE,
                          pnl |-> None]
             ref == Len(heap) + 1
             wallet == request.wallet_address
             owned == IF wallet \in DOMAIN user_positions
                      THEN user_positions[wallet] ELSE << >>
         IN  /\ Len(heap) < MaxPositions
             /\ heap' = Append(heap, position)
             /\ settle_count' = Append(settle_count, 0)
             /\ positions' = SetItem(positions, position.position_id, ref)
             /\ user_positions' = SetItem(user_positions, wallet,
                                          Append(owned, position.position_id))
             /\ last' = OK("open", request, ref, position)
             /\ UNCHANGED clock

OpenPosition ==
    /\ \E request \in OpenPositionRequests, d \in LedgerDraws :
          open_position(request, d)
    /\ UNCHANGED << momentum_vars, validation, oracle_vars >>

\* ------------------------------------------------------------ settle_position
\* faulty variant: the settled flag not consulted
AlreadySettled_Never(position) == FALSE

AlreadySettled(position) == position.is_settled

WindowNotEnded(position, now) ==
    now < position.entry_time + position.window_duration

\* faulty variant: an unchanged index pays as a win (>= for >, <= for <)
PnL_DrawWins(position, momentum_change) ==
    LET profit == RMul(RMul(<< position.amount, 1 >>,
                            Rat(Abs(momentum_change), 100)),
                       << 98, 100 >>)
    IN  IF position.position_type = "long"
        THEN IF momentum_change >= 0 THEN profit
             ELSE << -position.amount, 1 >>
        ELSE IF momentum_change <= 0 THEN profit
             ELSE << -position.amount, 1 >>

\* the profit or loss before rounding, in AmountUnit
PnL(position, momentum_change) ==
    LET profit == RMul(RMul(<< position.amount, 1 >>,
                            Rat(Abs(momentum_change), 100)),
                       << 98, 100 >>)
    IN  IF position.position_type = "long"
        THEN IF momentum_change > 0 THEN profit
             ELSE << -position.amount, 1 >>
        ELSE IF momentum_change < 0 THEN profit
             ELSE << -position.amount, 1 >>

\* faulty variant: the PnL stored without setting the flag
Settled_FlagNotSet(position, pnl) ==
    [position EXCEPT !.pnl = Some(Round4(pnl))]

Settled(position, pnl) ==
    [position EXCEPT !.is_settled = TRUE, !.pnl = Some(Round4(pnl))]

settle_position(position_id, d) ==
    IF position_id \notin DOMAIN positions
    THEN /\ last' = HTTPException("settle", position_id, 404, "Position not found")
         /\ UNCHANGED << clock, heap, positions, user_positions, settle_count >>
    ELSE LET ref == positions[position_id]
             position == heap[ref]
         IN  IF AlreadySettled(position)
             THEN /\ last' = [HTTPException("settle", position_id, 400,
                                  "Position already settled") EXCEPT !.ref = ref]
                  /\ UNCHANGED << clock, heap, positions, user_positions,
                                  settle_count >>
             ELSE IF WindowNotEnded(position, clock)
             THEN /\ last' = [HTTPException("settle", position_id, 400,
                                  "Trading window not ended") EXCEPT !.ref = ref]
                  /\ UNCHANGED << clock, heap, positions, user_positions,
                                  settle_count >>
             ELSE LET current_momentum == generate_momentum_data(d)
                      momentum_change == current_momentum.momentum_index
                                         - position.entry_index
                      settled == Settled(position, PnL(position, momentum_change))
                  IN  /\ heap' = [heap EXCEPT ![ref] = settled]
                      /\ settle_count' = [settle_count EXCEPT ![ref] = @ + 1]
                      /\ last' = OK("settle", position_id, ref,
                                    [position_id |-> position_id,
                                     pnl |-> settled.pnl[1],
                                     entry_index |-> position.entry_index,
                                     exit_index |-> current_momentum.momentum_index,
                                     momentum_change |-> momentum_change])
                      /\ UNCHANGED << clock, positions, user_positions >>

SettlePosition ==
    /\ \E position_id \in DOMAIN positions \cup {UnknownPositionId},
          d \in LedgerDraws :
          settle_position(position_id, d)
    /\ UNCHANGED << momentum_vars, validation, oracle_vars >>

\* ------------------------------------------------------------ get_user_positions
\* the accounts asked for: the two that open positions and one that never does
ListedWallets == Wallets \cup {"wallet_none"}

get_user_positions(wallet_address) ==
    LET position_ids == IF wallet_address \in DOMAIN user_positions
                        THEN user_positions[wallet_address] ELSE << >>
        known == SelectSeq(position_ids, LAMBDA pid : pid \in DOMAIN positions)
    IN  /\ last' = OK("list", wallet_address, 0,
                      [k \in DOMAIN known |-> heap[positions[known[k]]]])
        /\ UNCHANGED << clock, heap, positions, user_positions, settle_count >>

GetUserPositions ==
    /\ \E wallet_address \in ListedWallets : get_user_positions(wallet_address)
    /\ UNCHANGED << momentum_vars, validation, oracle_vars >>

\* ------------------------------------------------------------ the clock
Tick ==
    /\ clock < MaxClock
    /\ clock' = clock + 1
    /\ last' = NoRequest
    /\ UNCHANGED << heap, positions, user_positions, settle_count >>
    /\ UNCHANGED << momentum_vars, validation, oracle_vars >>

\* ------------------------------------------------------------ a calculate_momentum call
Event(team, type) == [team |-> team, type |-> type]
Repeat(e, n) == [i \in 1 .. n |-> e]

\* the kinds of event the lists are made of: two that count, one of a kind
\* that does not, one of no team
EventSamples ==
    {Event("home", "shot"), Event("away", "corner"), Event("home", "pass"),
     Event("neutral", "dangerous_attack")}

\* up to MaxOlder events of one kind followed by none, one or ten of another
EventLists ==
    {Repeat(a, i) \o Repeat(b, j) :
        a \in EventSamples, b \in EventSamples, i \in {0, MaxOlder}, j \in {0, 1, 10}}

Snapshots ==
    [possession : {0, 50, 100}, shots_home : {0, MaxShots}, shots_away : {0, MaxShots},
     xg_home : {0, MaxXg}, xg_away : {0, MaxXg}, field_tilt : {-100, 0, 100},
     recent_events : EventLists]

Volatilities == {-MaxVolatility, -5, 0, 5, MaxVolatility}

\* the draws of a generate_momentum_data call
GeneratorDraws ==
    [base : {-30, 0, 30}, shots_home : {0, MaxShots}, shots_away : {0, MaxShots},
     u_home : {8, 18}, u_away : {8, 18}, tilt : {-30, 30}, volatility : Volatilities]

MomentumIdle ==
    /\ snapshot = None
    /\ volatility = 0
    /\ momentum = None
    /\ terms = None

\* the locals of a calculate_momentum call on snapshot s: the five terms
Terms(s) ==
    [possession_score |-> possession_score(s.possession),
     shots_score |-> shots_score(s.shots_home, s.shots_away),
     xg_score |-> xg_score(s.xg_home, s.xg_away),
     field_tilt_score |-> field_tilt_score(s.field_tilt),
     event_score |-> event_score(s.recent_events)]

CalculateMomentum ==
    /\ momentum = None
    /\ snapshot # None
    /\ \E v \in Volatilities :
          /\ volatility' = v
          /\ momentum' = Some(calculate_momentum(snapshot.possession,
                               snapshot.shots_home, snapshot.shots_away,
                               snapshot.xg_home, snapshot.xg_away,
                               snapshot.field_tilt, snapshot.recent_events, v))
    /\ terms' = Some(Terms(snapshot))
    /\ UNCHANGED << snapshot, ledger_vars, validation, oracle_vars >>

\* generate_momentum_data, the way the ledger and the momentum endpoint reach
\* calculate_momentum, from the state with no snapshot: the snapshot becomes
\* the generated one, without events
GenerateMomentumData ==
    /\ momentum = None
    /\ snapshot = None
    /\ \E d \in GeneratorDraws :
          LET data == generate_momentum_data(d)
          IN  /\ snapshot' = [possession |-> data.possession,
                              shots_home |-> data.shots_home,
                              shots_away |-> data.shots_away,
                              xg_home |-> data.xg_home, xg_away |-> data.xg_away,
                              field_tilt |-> data.field_tilt,
                              recent_events |-> << >>]
              /\ volatility' = d.volatility
              /\ momentum' = Some(data.momentum_index)
              /\ terms' = Some(Terms(snapshot'))
    /\ UNCHANGED << ledger_vars, validation, oracle_vars >>

\* ------------------------------------------------------------ MomentumOracle
InitialMomentum == 50
max_failures == 5
DefaultMaxChange == 20
HistoryLimit == 100

\* faulty variant: a change equal to max_change refused (>= for >)
validate_momentum_change_Strict(old_index, new_index, max_change) ==
    LET change == Abs(new_index - old_index)
    IN  IF change >= max_change THEN FALSE ELSE TRUE

validate_momentum_change(old_index, new_index, max_change) ==
    LET change == Abs(new_index - old_index)
    IN  IF change > max_change THEN FALSE ELSE TRUE

\* the record of a publish (its timestamp and signature left out)
UpdateRecord(match_id, momentum_index) ==
    [match_id |-> match_id, momentum_index |-> momentum_index]

\* faulty variant: the first HistoryLimit records kept ([:100] for [-100:])
update_momentum_on_chain_KeepsOldest(history, match_id, momentum_index) ==
    LET recorded == Append(history, UpdateRecord(match_id, momentum_index))
    IN  IF Len(recorded) > HistoryLimit
        THEN SubSeq(recorded, 1, HistoryLimit)
        ELSE recorded

\* the record appended by a publish and the cut to the last HistoryLimit
update_momentum_on_chain(history, match_id, momentum_index) ==
    LET recorded == Append(history, UpdateRecord(match_id, momentum_index))
    IN  IF Len(recorded) > HistoryLimit
        THEN SubSeq(recorded, Len(recorded) - HistoryLimit + 1, Len(recorded))
        ELSE recorded

\* the matches the data API may report live, in the order it lists them
LiveOrder == << "match_001" >>
LiveMatchIds == {LiveOrder[i] : i \in DOMAIN LiveOrder}

\* the indexes the data API may return for a match: 30 and 70 are within
\* DefaultMaxChange of InitialMomentum and 40 apart, 100 is within it of neither
FetchIndexes == {30, 70, 100}

OracleEvent(task, kind, index) == [task |-> task, kind |-> kind, index |-> index]

OracleIdle ==
    /\ tasks = << >>
    /\ active_matches = << >>
    /\ update_history = << >>
    /\ publications = << >>
    /\ event = OracleEvent(0, "none", 0)
    /\ closed = FALSE
    /\ passes_after_close = << >>

ValidationIdle == validation = None

\* faulty variant: the key kept
DelItem_Kept(f, k) == f

\* del d[k]
DelItem(f, k) == [x \in DOMAIN f \ {k} |-> f[x]]

\* faulty variant: one more pass at the threshold (<= for <)
KeepMonitoring_Inclusive(consecutive_failures) ==
    consecutive_failures <= max_failures

\* the while condition of monitor_match
KeepMonitoring(consecutive_failures) == consecutive_failures < max_failures

NewTask(match_id) ==
    [match_id |-> match_id, last_momentum |-> InitialMomentum,
     consecutive_failures |-> 0, pc |-> "running"]

\* faulty variant: a failure also forgets the trusted index
CountFailure_ForgetsTrusted(i) ==
    [tasks EXCEPT ![i].consecutive_failures = @ + 1,
                  ![i].last_momentum = InitialMomentum]

\* consecutive_failures += 1 in task i
CountFailure(i) == [tasks EXCEPT ![i].consecutive_failures = @ + 1]

\* faulty variant: the counter not reset by a publish
Trusted_CounterKept(i, momentum_index) ==
    [tasks EXCEPT ![i].last_momentum = momentum_index]

\* last_momentum = momentum_data.momentum_index; consecutive_failures = 0
Trusted(i, momentum_index) ==
    [tasks EXCEPT ![i].last_momentum = momentum_index,
                  ![i].consecutive_failures = 0]

\* One pass of the loop of monitor_match for task i, from the while condition
\* to the sleep.  fetched is what fetch_match_data returned (None, or the index
\* of the data), published whether update_momentum_on_chain succeeded: it
\* fails by raising before it records anything.  The task reads nothing
\* shared before the fetch returns, so the pass is one step, taken when the
\* fetch returns.
monitor_match(i, fetched, published) ==
    LET t == tasks[i]
        failed == CountFailure(i)
    IN  /\ t.pc = "running"
        /\ KeepMonitoring(t.consecutive_failures)
        /\ IF fetched = None
           THEN /\ tasks' = failed
                /\ event' = OracleEvent(i, "fetch_failed", 0)
                /\ UNCHANGED << active_matches, update_history, publications >>
           ELSE IF ~validate_momentum_change(t.last_momentum, fetched[1],
                                             DefaultMaxChange)
           THEN /\ event' = OracleEvent(i, "rejected", fetched[1])
                /\ UNCHANGED << tasks, active_matches, update_history,
                                publications >>
           ELSE IF published
           THEN /\ Len(update_history) < MaxUpdates
                /\ update_history' = update_momentum_on_chain(update_history,
                                         t.match_id, fetched[1])
                /\ publications' = Append(publications,
                                          UpdateRecord(t.match_id, fetched[1]))
                /\ tasks' = Trusted(i, fetched[1])
                /\ active_matches' = SetItem(active_matches, t.match_id,
                                             fetched[1])
                /\ event' = OracleEvent(i, "published", fetched[1])
           ELSE /\ tasks' = failed
                /\ event' = OracleEvent(i, "publish_failed", fetched[1])
                /\ UNCHANGED << active_matches, update_history, publications >>

\* the passes loop k is known to have made since the shutdown handler ran, 2
\* standing for two or more; nothing in the program reads it
PassesAfterClose(k) ==
    IF k \in DOMAIN passes_after_close THEN passes_after_close[k] ELSE 0

PassMade(k) ==
    passes_after_close' =
        IF closed THEN SetItem(passes_after_close, k, Min(2, PassesAfterClose(k) + 1))
        ELSE passes_after_close

MonitorTick ==
    /\ \E i \in DOMAIN tasks, published \in BOOLEAN,
          fetched \in {None} \cup {Some(x) : x \in FetchIndexes} :
          monitor_match(i, fetched, published) /\ PassMade(i)
    /\ UNCHANGED closed
    /\ UNCHANGED << ledger_vars, momentum_vars, validation >>

\* the end of monitor_match for task i: the loop is left and the match dropped
monitor_match_end(i) ==
    /\ tasks[i].pc = "running"
    /\ ~KeepMonitoring(tasks[i].consecutive_failures)
    /\ tasks' = [tasks EXCEPT ![i].pc = "done"]
    /\ active_matches' = IF tasks[i].match_id \in DOMAIN active_matches
                         THEN DelItem(active_matches, tasks[i].match_id)
                         ELSE active_matches
    /\ event' = OracleEvent(i, "stopped", 0)
    /\ UNCHANGED << update_history, publications, closed, passes_after_close >>

MonitorStop ==
    /\ \E i \in DOMAIN tasks : monitor_match_end(i)
    /\ UNCHANGED << ledger_vars, momentum_vars, validation >>

\* the steps of the i-th monitor task: a pass of its loop with whatever the
\* data API and the publish return, or its end
MonitorStep(i) ==
    /\ i \in DOMAIN tasks
    /\ \/ /\ \E published \in BOOLEAN,
                fetched \in {None} \cup {Some(x) : x \in FetchIndexes} :
                monitor_match(i, fetched, published) /\ PassMade(i)
          /\ UNCHANGED closed
       \/ monitor_match_end(i)
    /\ UNCHANGED << ledger_vars, momentum_vars, validation >>

\* One pass of the loop of run: live is what fetch_live_matches returned (the
\* empty list when it failed); the for loop has no await, so it is one step.
run(live) ==
    LET fresh == SelectSeq(LiveOrder,
                     LAMBDA m : m \in live /\ m \notin DOMAIN active_matches)
    IN  /\ Len(tasks) + Len(fresh) <= MaxTasks
        /\ tasks' = tasks \o [k \in DOMAIN fresh |-> NewTask(fresh[k])]
        /\ event' = OracleEvent(0, "discovered", Len(fresh))
        /\ PassMade(0)
        /\ UNCHANGED << active_matches, update_history, publications, closed >>

Discover ==
    /\ \E live \in SUBSET LiveMatchIds : run(live)
    /\ UNCHANGED << ledger_vars, momentum_vars, validation >>

\* a pass of run while the data API answers and reports every match live
DiscoverLive ==
    /\ run(LiveMatchIds)
    /\ UNCHANGED << ledger_vars, momentum_vars, validation >>

\* shutdown_event: oracle.close() closes the RPC client, which no pass uses,
\* and returns.  No task handle is kept by run or by startup_event and no
\* loop reads a flag, so the handler changes nothing the loops can see.
Shutdown ==
    /\ ~closed
    /\ closed' = TRUE
    /\ event' = OracleEvent(0, "closed", 0)
    /\ UNCHANGED << tasks, active_matches, update_history, publications,
                    passes_after_close >>
    /\ UNCHANGED << ledger_vars, momentum_vars, validation >>

\* ------------------------------------------------------------ get_status
\* faulty variant: a match's index read from its oldest retained record
get_status_OldestRecord ==
    [active_matches |-> Cardinality(DOMAIN active_matches),
     matches |-> [m \in DOMAIN active_matches |->
                    LET own == {k \in DOMAIN update_history :
                                   update_history[k].match_id = m}
                    IN  [momentum_index |->
                           IF own = {} THEN active_matches[m]
                           ELSE update_history[CHOOSE k \in own :
                                    \A j \in own : k <= j].momentum_index]],
     recent_updates |-> IF Len(update_history) <= 10 THEN update_history
                        ELSE SubSeq(update_history, Len(update_history) - 9,
                                    Len(update_history))]

\* the status snapshot: the number of active matches, the index of each, and
\* update_history[-10:].  The key, the uptime and the time of the last update
\* are left out.
get_status ==
    [active_matches |-> Cardinality(DOMAIN active_matches),
     matches |-> [m \in DOMAIN active_matches |->
                    [momentum_index |-> active_matches[m]]],
     recent_updates |-> IF Len(update_history) <= 10 THEN update_history
                        ELSE SubSeq(update_history, Len(update_history) - 9,
                                    Len(update_history))]

\* GET /status: the snapshot is the response, left in event; nothing changes
GetStatus ==
    /\ event' = OracleEvent(0, "status", get_status)
    /\ UNCHANGED << tasks, active_matches, update_history, publications, closed,
                    passes_after_close >>
    /\ UNCHANGED << ledger_vars, momentum_vars, validation >>

\* ------------------------------------------------------------ a run of publishes
\* the indexes the k-th publish of a long run may carry: one value while the
\* history is far from full, any of FetchIndexes from the publish that fills
\* it
PublishIndexes(k) ==
    IF k < HistoryLimit THEN {(k * 7) % 101} ELSE FetchIndexes

\* one more successful update_momentum_on_chain call; the run goes MaxBurst
\* publishes beyond the one that fills the history
Publish ==
    /\ Len(publications) < HistoryLimit + MaxBurst - 1
    /\ \E match_id \in LiveMatchIds,
          momentum_index \in PublishIndexes(Len(publications) + 1) :
          /\ update_history' = update_momentum_on_chain(update_history, match_id,
                                                        momentum_index)
          /\ publications' = Append(publications,
                                    UpdateRecord(match_id, momentum_index))
    /\ UNCHANGED << tasks, active_matches, event, closed, passes_after_close >>
    /\ UNCHANGED << ledger_vars, momentum_vars, validation >>

\* ------------------------------------------------------------ a validate_momentum_change call
MaxChanges == {0, DefaultMaxChange}

ValidateMomentumChange ==
    /\ validation.accepted = None
    /\ validation' = [validation EXCEPT !.accepted =
                         Some(validate_momentum_change(validation.old_index,
                                  validation.new_index, validation.max_change))]
    /\ UNCHANGED << ledger_vars, momentum_vars, oracle_vars >>

\* ------------------------------------------------------------ specifications
LedgerInit == LedgerIdle /\ MomentumIdle /\ ValidationIdle /\ OracleIdle

LedgerNext == OpenPosition \/ SettlePosition \/ Tick

SpecLedger == LedgerInit /\ [][LedgerNext]_vars

\* the ledger with the per-account listing
AccountNext == OpenPosition \/ SettlePosition \/ Tick \/ GetUserPositions

SpecAccount == LedgerInit /\ [][AccountNext]_vars

MomentumInit ==
    /\ LedgerIdle /\ ValidationIdle /\ OracleIdle
    /\ snapshot \in Snapshots \cup {None}
    /\ volatility = 0
    /\ momentum = None
    /\ terms = None

MomentumNext == CalculateMomentum \/ GenerateMomentumData

SpecMomentum == MomentumInit /\ [][MomentumNext]_vars

ValidateInit ==
    /\ LedgerIdle /\ MomentumIdle /\ OracleIdle
    /\ validation \in [old_index : 0 .. 100, new_index : 0 .. 100,
                       max_change : MaxChanges, accepted : {None}]

ValidateNext == ValidateMomentumChange

SpecValidate == ValidateInit /\ [][ValidateNext]_vars

OracleInit == LedgerIdle /\ MomentumIdle /\ ValidationIdle /\ OracleIdle

\* the service while it runs
OracleNext == Discover \/ MonitorTick \/ MonitorStop

SpecOracle == OracleInit /\ [][OracleNext]_vars

\* the running service with a working discovery feed: run sleeps 30 s (10 s
\* after an error) and loops forever, and the event loop resumes every task
\* whose sleep is over, so a pass that finds the matches live is not postponed
\* forever
SpecOracleFair == OracleInit /\ [][OracleNext]_vars /\ WF_vars(DiscoverLive)

\* update_momentum_on_chain over long runs of publishes
HistoryNext == Publish

SpecHistory == OracleInit /\ [][HistoryNext]_vars

\* the running service with every task scheduled: the event loop resumes each
\* monitor when its fetch returns or its sleep of ORACLE_UPDATE_INTERVAL is
\* over, and run as in SpecOracleFair; what the data API returns is not
\* constrained
SpecMonitorFair ==
    /\ OracleInit /\ [][OracleNext]_vars
    /\ WF_vars(DiscoverLive)
    /\ \A i \in 1 .. MaxTasks : WF_vars(MonitorStep(i))

\* the running service with its status endpoint
StatusNext == Discover \/ MonitorTick \/ MonitorStop \/ GetStatus

SpecStatus == OracleInit /\ [][StatusNext]_vars

\* the service with its shutdown handler
ServiceNext == Discover \/ MonitorTick \/ MonitorStop \/ Shutdown

SpecService == OracleInit /\ [][ServiceNext]_vars

\* ============================================================ claims: the ledger
\* A step that handles a request leaves it, with its response, in last; a
\* clock tick leaves NoRequest.  settle_position and open_position contain no
\* await, so the event loop runs each call to completion: one call, one step.

SettleCalled(i) == last.op = "settle" /\ last.ref = i

\* C1: for every position, under a non-decreasing clock: a settle call made
\* while now < entry_time + window_duration answers 400 "Trading window not
\* ended" and leaves the position unsettled; at most one settle call on it
\* ever succeeds; every settle call on it after the successful one answers
\* 400 "Position already settled" and changes nothing.
C1_SettleOnce ==
    /\ [](\A i \in DOMAIN heap : settle_count[i] <= 1)
    /\ [](\A i \in DOMAIN heap :
            (SettleCalled(i) /\ clock < heap[i].entry_time + heap[i].window_duration)
            => /\ last.status = 400
               /\ last.detail = "Trading window not ended"
               /\ ~heap[i].is_settled
               /\ settle_count[i] = 0)
    /\ [][\A i \in DOMAIN heap :
            (settle_count[i] >= 1 /\ last'.op = "settle" /\ last'.ref = i)
            => /\ last'.status = 400
               /\ last'.detail = "Position already settled"
               /\ heap' = heap
               /\ settle_count' = settle_count]_vars

\* C1 witness: a settled position on which a later settle call was refused
C1_Witness ==
    \E i \in DOMAIN heap :
        /\ SettleCalled(i)
        /\ last.detail = "Position already settled"
        /\ settle_count[i] = 1
        /\ heap[i].is_settled

\* what C2 promises for a position and delta = exit_index - entry_index,
\* before any rounding, in AmountUnit
ClaimedPnL(position, delta) ==
    IF \/ position.position_type = "long" /\ delta > 0
       \/ position.position_type = "short" /\ delta < 0
    THEN RMul(<< position.amount * Abs(delta), 100 >>, << 98, 100 >>)
    ELSE << -position.amount, 1 >>

SettleSucceeded == last.op = "settle" /\ last.status = 200

\* C2 as stated: after a successful settle the stored PnL equals
\* amount * (|delta|/100) * 0.98 on the winning side and -amount otherwise.
C2_ExactPnL ==
    SettleSucceeded =>
        LET position == heap[last.ref]
            delta == last.body[1].exit_index - position.entry_index
        IN  << position.pnl[1], 1 >> = ClaimedPnL(position, delta)

\* C2 amended: after a successful settle the stored PnL equals
\* amount * (|delta|/100) * 0.98 rounded to 4 decimals on the winning side
\* (LONG and delta > 0, SHORT and delta < 0) and -amount rounded to 4 decimals
\* otherwise, delta = 0 included; the response carries that PnL and delta.
C2_RoundedPnL ==
    SettleSucceeded =>
        LET position == heap[last.ref]
            delta == last.body[1].exit_index - position.entry_index
        IN  /\ position.pnl = Some(Round4(ClaimedPnL(position, delta)))
            /\ last.body[1].pnl = position.pnl[1]
            /\ last.body[1].momentum_change = delta
            /\ last.body[1].entry_index = position.entry_index

\* C2 witness: LONG, amount 100, entry 40, exit 60 settled with PnL 19.6
C2_Witness ==
    /\ SettleSucceeded
    /\ heap[last.ref].position_type = "long"
    /\ heap[last.ref].amount = 10000000
    /\ heap[last.ref].entry_index = 40
    /\ last.body[1].exit_index = 60
    /\ heap[last.ref].pnl = Some(1960000)

\* C3: an open with amount <= 0 or window_duration <= 0 is refused and
\* creates nothing: every stored position has amount > 0 and
\* window_duration > 0.
C3_ValidatedRequest ==
    /\ \A i \in DOMAIN heap :
          heap[i].amount > 0 /\ heap[i].window_duration > 0
    /\ (last.op = "open"
        /\ (last.arg.amount <= 0 \/ last.arg.window_duration <= 0))
       => last.status # 200

\* C4: an open for a match id outside the registry answers 404 "Match not
\* found" and leaves the position map, the objects and every account's list
\* unchanged; every position references a match of the registry.
C4_MatchNotFound ==
    /\ [](\A i \in DOMAIN heap : heap[i].match_id \in MatchIds)
    /\ [][(last'.op = "open" /\ last'.arg.match_id \notin MatchIds)
          => /\ last'.status = 404
             /\ last'.detail = "Match not found"
             /\ positions' = positions
             /\ user_positions' = user_positions
             /\ heap' = heap]_vars

\* C4 witness: an open for an unknown match refused while positions exist
C4_Witness ==
    /\ last.op = "open"
    /\ last.arg.match_id \notin MatchIds
    /\ last.status = 404
    /\ heap # << >>

\* C5: for every position, pnl is defined iff is_settled; the position is
\* created unsettled with the request's amount, window, direction, match and
\* owner and the index and time of the call; no object disappears, and the
\* only change an object ever undergoes is the one successful settle step,
\* which sets is_settled and pnl and nothing else.
C5_MutatedOnce ==
    /\ [](\A i \in DOMAIN heap : (heap[i].pnl # None) <=> heap[i].is_settled)
    /\ [][/\ \A i \in DOMAIN heap :
               /\ i \in DOMAIN heap'
               /\ \/ heap'[i] = heap[i]
                  \/ /\ ~heap[i].is_settled
                     /\ heap'[i].is_settled
                     /\ heap'[i].pnl # None
                     /\ heap'[i] = [heap[i] EXCEPT !.is_settled = TRUE,
                                                   !.pnl = heap'[i].pnl]
                     /\ last'.op = "settle" /\ last'.status = 200
                     /\ last'.ref = i
          /\ \A i \in DOMAIN heap' \ DOMAIN heap :
               /\ last'.op = "open" /\ last'.status = 200 /\ last'.ref = i
               /\ heap'[i].amount = last'.arg.amount
               /\ heap'[i].window_duration = last'.arg.window_duration
               /\ heap'[i].position_type = last'.arg.position_type
               /\ heap'[i].match_id = last'.arg.match_id
               /\ heap'[i].user_wallet = last'.arg.wallet_address
               /\ heap'[i].entry_time = clock
               /\ heap'[i].entry_index \in 0 .. 100
               /\ ~heap'[i].is_settled
               /\ heap'[i].pnl = None]_vars

\* C5 witness: a settled position beside an unsettled one
C5_Witness ==
    \E i, j \in DOMAIN heap :
        /\ heap[i].is_settled /\ heap[i].pnl # None
        /\ ~heap[j].is_settled /\ heap[j].pnl = None

\* C21: every settled position has -amount <= PnL <= 0.98 * amount, and a
\* settlement stores a positive PnL only when the index moved in the
\* position's favour (rose for LONG, fell for SHORT).
C21_PnLBounds ==
    /\ \A i \in DOMAIN heap :
          heap[i].is_settled
          => /\ -heap[i].amount <= heap[i].pnl[1]
             /\ heap[i].pnl[1] * 100 <= 98 * heap[i].amount
    /\ SettleSucceeded
       => LET position == heap[last.ref]
              delta == last.body[1].exit_index - position.entry_index
          IN  position.pnl[1] > 0
              => \/ position.position_type = "long" /\ delta > 0
                 \/ position.position_type = "short" /\ delta < 0

\* the stored position behind an id
Stored(objects, ids, position_id) == objects[ids[position_id]]

\* C17: every successful open stores a position under an id no stored
\* position has: the number of stored positions grows by exactly one and
\* every position stored before is still stored, unchanged, under its id,
\* also when the clock has not advanced since an earlier open.
C17_DistinctIdentity ==
    [][(last'.op = "open" /\ last'.status = 200)
       => /\ Cardinality(DOMAIN positions') = Cardinality(DOMAIN positions) + 1
          /\ \A position_id \in DOMAIN positions :
                /\ position_id \in DOMAIN positions'
                /\ Stored(heap', positions', position_id)
                      = Stored(heap, positions, position_id)]_vars

\* the stored positions: the values of data_store.positions
StoredPositions == {heap[positions[position_id]] : position_id \in DOMAIN positions}

\* C18: the listing for an account returns the stored positions whose owner
\* is the account, each exactly once, and nothing else; it is empty, with
\* status 200, for an account that opened none; it changes no stored data.
C18_ListPositionsForAccount ==
    /\ [](last.op = "list"
          => LET listed == last.body[1]
             IN  /\ last.status = 200
                 /\ \A k \in DOMAIN listed :
                       /\ listed[k] \in StoredPositions
                       /\ listed[k].user_wallet = last.arg
                 /\ \A position \in StoredPositions :
                       position.user_wallet = last.arg
                       => Cardinality({k \in DOMAIN listed : listed[k] = position}) = 1
                 /\ last.arg \notin DOMAIN user_positions => listed = << >>)
    /\ [][last'.op = "list"
          => /\ heap' = heap /\ positions' = positions
             /\ user_positions' = user_positions]_vars

\* C6: calculate_momentum returns an integer in 0..100 for every snapshot and
\* every volatility draw, whether it is called directly or through
\* generate_momentum_data, the call that prices every entry and exit.
C6_IndexBounded ==
    momentum # None => momentum[1] \in 0 .. 100

\* C6 witness: total away dominance with a draw of -6: the weighted sum plus
\* the noise is negative and the index is 0
C6_Witness ==
    /\ momentum = Some(0)
    /\ volatility = -MaxVolatility
    /\ snapshot.possession = 0
    /\ snapshot.shots_home = 0 /\ snapshot.shots_away > 0
    /\ snapshot.xg_home = 0 /\ snapshot.xg_away > 0
    /\ snapshot.field_tilt = -100
    /\ snapshot.recent_events = << >>

\* C19: calculate_momentum is total: the call pending on any snapshot has,
\* for every volatility draw, an integer result, and the call that returned
\* has returned an index and five terms; when shots_home + shots_away is 0
\* the shots term is 10 and when xg_home + xg_away is 0 the expected-goals
\* term is 15, the all-zero snapshot included.
C19_TotalWithNeutralDefaults ==
    /\ (snapshot # None /\ momentum = None)
       => \A v \in Volatilities :
             calculate_momentum(snapshot.possession, snapshot.shots_home,
                 snapshot.shots_away, snapshot.xg_home, snapshot.xg_away,
                 snapshot.field_tilt, snapshot.recent_events, v) \in Int
    /\ momentum # None
       => /\ terms # None
          /\ momentum[1] \in Int
          /\ snapshot.shots_home + snapshot.shots_away = 0
             => terms[1].shots_score = << 10, 1 >>
          /\ snapshot.xg_home + snapshot.xg_away = 0
             => terms[1].xg_score = << 15, 1 >>

\* C19 witness: the all-zero snapshot without events: the terms are 0, 10,
\* 15, 10 and 5 and the index, with a draw of 0, is 40
C19_Witness ==
    /\ snapshot # None
    /\ snapshot.possession = 0
    /\ snapshot.shots_home = 0 /\ snapshot.shots_away = 0
    /\ snapshot.xg_home = 0 /\ snapshot.xg_away = 0
    /\ snapshot.field_tilt = 0
    /\ snapshot.recent_events = << >>
    /\ volatility = 0
    /\ terms # None
    /\ terms[1].shots_score = << 10, 1 >>
    /\ terms[1].xg_score = << 15, 1 >>
    /\ momentum = Some(40)

\* the events of the list that count for a team: those among the last ten
\* whose kind is shot, corner or dangerous_attack
Counted(events, team) ==
    {k \in DOMAIN events :
        /\ k > Len(events) - 10
        /\ events[k].team = team
        /\ events[k].type \in {"shot", "corner", "dangerous_attack"}}

\* C20: the recent-events term is 5 + H - A brought into 0..10, with H and A
\* the numbers of home and away events of kind shot, corner or
\* dangerous_attack among the last 10 events; earlier events, other kinds
\* and other teams do not count, and the empty list gives 5.
C20_RecentEventsTerm ==
    momentum # None
    => LET events == snapshot.recent_events
           raw == 5 + Cardinality(Counted(events, "home"))
                    - Cardinality(Counted(events, "away"))
       IN  /\ terms[1].event_score
                = (IF raw < 0 THEN 0 ELSE IF raw > 10 THEN 10 ELSE raw)
           /\ events = << >> => terms[1].event_score = 5

\* C20 witness: MaxOlder home shots followed by ten dangerous attacks of no
\* team: the shots are older than the last ten and the term is 5
C20_Witness ==
    /\ momentum # None
    /\ snapshot.recent_events
         = Repeat(Event("home", "shot"), MaxOlder)
           \o Repeat(Event("neutral", "dangerous_attack"), 10)
    /\ terms[1].event_score = 5

\* C7: validate_momentum_change(old, new, max_change) accepts exactly when
\* |new - old| <= max_change, for all old and new in 0..100; so a change
\* equal to max_change is accepted, (50, 80, 20) is refused and (50, 65, 20)
\* accepted.
C7_ValidateExactly ==
    (validation # None /\ validation.accepted # None)
    => LET distance == IF validation.new_index >= validation.old_index
                       THEN validation.new_index - validation.old_index
                       ELSE validation.old_index - validation.new_index
       IN  validation.accepted[1] <=> (distance <= validation.max_change)

\* C7 witness: a change equal to max_change, accepted
C7_Witness ==
    validation = [old_index |-> 50, new_index |-> 70,
                  max_change |-> DefaultMaxChange, accepted |-> Some(TRUE)]

\* A step of the oracle leaves in event the task that took it and what the
\* pass did: fetch_failed, rejected, publish_failed, published, stopped.

\* C8: a task's failure counter grows by exactly one on each pass whose fetch
\* fails or whose publish fails and stays within 0..max_failures; once it is
\* max_failures the task's only step is to stop, which fetches and publishes
\* nothing and removes the match from active_matches, and a stopped task
\* takes no step.
C8_FailureThreshold ==
    /\ [](\A i \in DOMAIN tasks :
            tasks[i].consecutive_failures \in 0 .. max_failures)
    /\ [][\A i \in DOMAIN tasks :
            /\ (event'.task = i /\ event'.kind \in {"fetch_failed", "publish_failed"})
               => /\ tasks'[i].consecutive_failures
                        = tasks[i].consecutive_failures + 1
                  /\ update_history' = update_history
            /\ (event'.task = i /\ tasks[i].consecutive_failures = max_failures)
               => /\ tasks[i].pc = "running"
                  /\ event'.kind = "stopped"
                  /\ tasks'[i].pc = "done"
                  /\ tasks[i].match_id \notin DOMAIN active_matches'
                  /\ update_history' = update_history
            /\ tasks[i].pc = "done" => tasks'[i] = tasks[i]]_vars

\* C8 witness: five failures in a row after a publish: the task has stopped
\* and its match, active until then, is no longer in active_matches
C8_Witness ==
    /\ event.kind = "stopped"
    /\ tasks[event.task].pc = "done"
    /\ tasks[event.task].consecutive_failures = max_failures
    /\ tasks[event.task].match_id \notin DOMAIN active_matches
    /\ \E k \in DOMAIN update_history :
          update_history[k].match_id = tasks[event.task].match_id

\* C9: a pass whose fetch succeeds and that does not end in a publish failure
\* (the reading is refused by the validation, or it is published) leaves the
\* task's failure counter at 0.
C9_ResetOnFetch ==
    [][\A i \in DOMAIN tasks :
         (event'.task = i /\ event'.kind \in {"rejected", "published"})
         => tasks'[i].consecutive_failures = 0]_vars

\* C10: at every moment at most one monitor task is running for a match.
C10_OneMonitorPerMatch ==
    \A i, j \in DOMAIN tasks :
        (tasks[i].pc = "running" /\ tasks[j].pc = "running"
         /\ tasks[i].match_id = tasks[j].match_id) => i = j

\* the index of the newest record of match_id in history, 0 when it has none
LastPublished(history, match_id) ==
    LET own == {k \in DOMAIN history : history[k].match_id = match_id}
    IN  IF own = {} THEN 0 ELSE CHOOSE k \in own : \A j \in own : j <= k

\* the monitor of match_id started last
NewestMonitor(match_id) ==
    LET own == {i \in DOMAIN tasks : tasks[i].match_id = match_id}
    IN  CHOOSE i \in own : \A j \in own : j <= i

\* C12: an index published for a match differs by at most DefaultMaxChange
\* from the index published for that match immediately before it, or from
\* InitialMomentum when nothing was published for the match since its
\* monitoring was (re)started.  last_momentum is assigned only by a publish,
\* so a newest monitor whose last_momentum is not InitialMomentum has
\* published since the last (re)start.
C12_ValidatedAgainstTrusted ==
    [][\A i \in DOMAIN tasks :
         (event'.task = i /\ event'.kind = "published")
         => LET match_id == tasks[i].match_id
                before == LastPublished(update_history, match_id)
                newest == tasks[NewestMonitor(match_id)]
            IN  \/ /\ before # 0
                   /\ Abs(event'.index - update_history[before].momentum_index)
                         <= DefaultMaxChange
                \/ /\ newest.last_momentum = InitialMomentum
                   /\ Abs(event'.index - InitialMomentum) <= DefaultMaxChange]_vars

\* C13: a pass that does not end in a successful publish (the fetch failed,
\* the reading was refused, or the publish failed) leaves the update history,
\* active_matches and every monitor's last_momentum unchanged.
C13_FailedPassFrame ==
    [][(event'.kind \in {"fetch_failed", "rejected", "publish_failed"})
       => /\ update_history' = update_history
          /\ active_matches' = active_matches
          /\ DOMAIN tasks' = DOMAIN tasks
          /\ \A j \in DOMAIN tasks :
                tasks'[j].last_momentum = tasks[j].last_momentum]_vars

\* C13 witness: a failed publish by a monitor that has published before: its
\* trusted index, the match's entry and the record are still there
C13_Witness ==
    /\ event.kind = "publish_failed"
    /\ tasks[event.task].last_momentum # InitialMomentum
    /\ tasks[event.task].consecutive_failures > 0
    /\ tasks[event.task].match_id \in DOMAIN active_matches
    /\ active_matches[tasks[event.task].match_id] = tasks[event.task].last_momentum
    /\ update_history # << >>

\* the update history after one more record, cut to the last HistoryLimit
Recorded(history, match_id, momentum_index) ==
    LET longer == history \o << [match_id |-> match_id,
                                 momentum_index |-> momentum_index] >>
    IN  IF Len(history) < HistoryLimit THEN longer ELSE Tail(longer)

\* C14: a pass whose fetch succeeds, whose change is valid and whose publish
\* succeeds sets the monitor's failure counter to 0 and its last_momentum to
\* the fetched index and appends one record with the match id and that index
\* as the newest entry of the update history; the update history changes in
\* no other step.
C14_PublishEffects ==
    [][/\ \A i \in DOMAIN tasks :
            (event'.task = i /\ event'.kind = "published")
            => /\ validate_momentum_change(tasks[i].last_momentum, event'.index,
                                           DefaultMaxChange)
               /\ tasks'[i].consecutive_failures = 0
               /\ tasks'[i].last_momentum = event'.index
               /\ update_history' = Recorded(update_history, tasks[i].match_id,
                                             event'.index)
       /\ update_history' # update_history => event'.kind = "published"]_vars

\* C14 witness: a publish after failures: the counter is back to 0 and the
\* newest record carries the match and the index
C14_Witness ==
    /\ event.kind = "published"
    /\ Len(update_history) = 2
    /\ update_history[2] = [match_id |-> tasks[event.task].match_id,
                            momentum_index |-> event.index]
    /\ update_history[1].momentum_index # event.index
    /\ tasks[event.task].consecutive_failures = 0
    /\ tasks[event.task].last_momentum = event.index

\* no monitor of the match is running
Unmonitored(match_id) ==
    \A j \in DOMAIN tasks :
        tasks[j].match_id = match_id => tasks[j].pc = "done"

\* C15: a stopped monitor never changes again; every monitor starts with the
\* failure counter 0 and last_momentum at InitialMomentum, whatever a monitor
\* of the same match held before; and under SpecOracleFair, when a match's
\* monitor has stopped and none is running for it, a new monitor of the match
\* is eventually started (as long as the model's MaxTasks allows a new task).
C15_StoppedThenFresh ==
    /\ [][/\ \A i \in DOMAIN tasks :
               /\ i \in DOMAIN tasks'
               /\ tasks[i].pc = "done" => tasks'[i] = tasks[i]
          /\ \A j \in DOMAIN tasks' \ DOMAIN tasks :
               /\ tasks'[j].consecutive_failures = 0
               /\ tasks'[j].last_momentum = InitialMomentum
               /\ tasks'[j].pc = "running"
               /\ tasks'[j].match_id \in LiveMatchIds]_vars
    /\ \A i \in 1 .. MaxTasks - 1 :
          (/\ Len(tasks) = i
           /\ tasks[i].pc = "done"
           /\ Unmonitored(tasks[i].match_id))
          ~> (/\ Len(tasks) > i
              /\ tasks[i + 1].match_id = tasks[i].match_id
              /\ tasks[i].pc = "done")

\* C15 witness: the pass of run that restarts a match: its earlier monitor
\* stopped at max_failures with a published index, the new one is fresh
C15_Witness ==
    /\ event.kind = "discovered" /\ event.index = 1
    /\ Len(tasks) = 2
    /\ tasks[1].pc = "done"
    /\ tasks[1].consecutive_failures = max_failures
    /\ tasks[1].last_momentum # InitialMomentum
    /\ tasks[2] = [match_id |-> tasks[1].match_id,
                   last_momentum |-> InitialMomentum,
                   consecutive_failures |-> 0, pc |-> "running"]

\* the last n elements of a sequence
LastN(seq, n) == SubSeq(seq, Len(seq) - n + 1, Len(seq))

\* C16: after any number n of publishes the update history holds at most
\* HistoryLimit records, and they are the most recent Min(n, HistoryLimit)
\* published records in publication order, newest last; a publish adds its
\* record at the end and removes nothing, or only the oldest record when the
\* history was full.
C16_MostRecentKept ==
    /\ [](/\ Len(update_history) <= HistoryLimit
          /\ update_history = LastN(publications,
                                    Min(Len(publications), HistoryLimit)))
    /\ [][update_history' # update_history
          => LET newest == publications'[Len(publications')]
             IN  /\ publications' = Append(publications, newest)
                 /\ \/ update_history' = Append(update_history, newest)
                    \/ /\ Len(update_history) = HistoryLimit
                       /\ update_history' = Append(Tail(update_history), newest)]_vars

\* C16 witness: 102 publishes: the history holds the last 100, the third
\* publish is its oldest record and the first two are gone
C16_Witness ==
    /\ Len(publications) = HistoryLimit + 2
    /\ Len(update_history) = HistoryLimit
    /\ update_history[1] = publications[3]
    /\ update_history[HistoryLimit] = publications[HistoryLimit + 2]
    /\ update_history[1] # publications[1]

\* C22: in every reachable state every match of active_matches carries the
\* index of the newest record of that match retained in update_history, if
\* there is one; and a status snapshot reports, for exactly the matches of
\* active_matches, that index.
C22_StatusIsLatestRecord ==
    /\ \A m \in DOMAIN active_matches :
          LastPublished(update_history, m) # 0
          => active_matches[m]
               = update_history[LastPublished(update_history, m)].momentum_index
    /\ event.kind = "status"
       => /\ DOMAIN event.index.matches = DOMAIN active_matches
          /\ event.index.active_matches = Cardinality(DOMAIN active_matches)
          /\ \A m \in DOMAIN event.index.matches :
                LastPublished(update_history, m) # 0
                => event.index.matches[m].momentum_index
                     = update_history[LastPublished(update_history, m)].momentum_index

\* C22 witness: a snapshot taken after two publishes of different indexes for
\* a match: it reports the second
C22_Witness ==
    /\ event.kind = "status"
    /\ Len(update_history) = 2
    /\ update_history[1].match_id = update_history[2].match_id
    /\ update_history[1].momentum_index # update_history[2].momentum_index
    /\ update_history[2].match_id \in DOMAIN event.index.matches
    /\ event.index.matches[update_history[2].match_id].momentum_index
         = update_history[2].momentum_index

\* C23: under SpecMonitorFair every monitor task that is started eventually
\* publishes an index for its match or stops.  A monitor has published when
\* its last_momentum is no longer InitialMomentum, which is none of
\* FetchIndexes.
C23_MonitorProgress ==
    \A i \in 1 .. MaxTasks :
        (i \in DOMAIN tasks)
        ~> (i \in DOMAIN tasks
            /\ \/ tasks[i].pc = "done"
               \/ tasks[i].last_momentum # InitialMomentum)

\* C11: once shutdown has been requested every loop stops at its next
\* iteration: the pass a loop was making when the request came may complete,
\* but no loop (the discovery loop or a monitor) makes a second pass, so no
\* further fetch or publish happens and no further monitor is started.
C11_ShutdownObserved ==
    \A k \in DOMAIN passes_after_close : passes_after_close[k] <= 1

====
